---- MODULE Spec2Model ----
(***************************************************************************)
(* lastuserapp/views/__init__.py: the authentication and session core.     *)
(*                                                                         *)
(* Strings the code inspects (the Authorization header, tokens, URLs) are  *)
(* sequences of symbols; strings it only passes along are TLA+ strings.    *)
(* A request is handled in three steps: the before_request hook            *)
(* lookup_current_user, the view function, and the teardown of the         *)
(* request context (g, request).  The session and the stores outlive it.   *)
(***************************************************************************)
EXTENDS Naturals, Sequences, FiniteSets, TLC

VARIABLES
    authtokens,   \* AuthToken table: token string -> scope set
    clients,      \* Client table: key -> [active, secret]
    users,        \* User table: userid -> [email]
    resources,    \* __resources: resource name -> the function registered last
    endpoints,    \* the decorated functions provides_resource has made: [name, f]
    session,      \* flask.session: key -> value, absent keys not in DOMAIN
    g,            \* flask.g: attribute -> value, unset attributes not in DOMAIN
    request,      \* the request being handled (NoRequest when idle)
    response,     \* what the view returned or raised (NoResponse before)
    calls,        \* invocations of the wrapped function f in this request
    returned,     \* get_next_url calls made in this request
    lookups,      \* avatar computations lookup_current_user made in this request
    pending,      \* db.session: the User records added in this request, not committed
    pc            \* "idle", "lookup" (the hook waits in urlopen), "view", "done",
                  \* "aborted" (the hook raised); "startup" while modules are imported

vars == <<authtokens, clients, users, resources, endpoints, session, g, request, response,
          calls, returned, lookups, pending, pc>>

stores == <<authtokens, clients, users, resources, endpoints>>

----------------------------------------------------------------------------
(* Bounds *)

MaxHeaderLen == 3

MaxUrlLen == 3

SeqsUpTo(S, n) == UNION {[1..k -> S] : k \in 0..n}

EmptyMap == <<>>

----------------------------------------------------------------------------
(* Requests and responses *)

NoRequest ==
    [view |-> "none", name |-> "", f |-> "", method |-> "", url |-> <<>>,
     headers |-> EmptyMap, authorization |-> <<>>, args |-> EmptyMap, form |-> EmptyMap]

NoResponse == [raised |-> "", status |-> 0, body |-> [text |-> ""], headers |-> EmptyMap]

\* flask.Response(message, status, headers)
Response(message, status, headers) ==
    [raised |-> "", status |-> status, body |-> [text |-> message], headers |-> headers]

\* An exception that leaves the view function.
Raise(cls) == [raised |-> cls, status |-> 0, body |-> [text |-> ""], headers |-> EmptyMap]

None == "None"

\* dict.get(key): the value, or None (here the empty sequence, which is falsy as None is)
Get(d, key) == IF key \in DOMAIN d THEN d[key] ELSE <<>>

----------------------------------------------------------------------------
(* provides_resource *)

\* The symbols an Authorization header is made of: the literal prefix "Bearer ",
\* a character of the class [a-zA-Z0-9_.~+/-], and the padding character "=".
HeaderSymbols == {"Bearer ", "a", "="}

TokenChars == {"a"}

\* auth_bearer_re.search(value): ^Bearer ([a-zA-Z0-9_.~+/-]+=*)$
auth_bearer_re(value) ==
    /\ Len(value) >= 2
    /\ value[1] = "Bearer "
    /\ \E k \in 2..Len(value) :
          /\ \A i \in 2..k : value[i] \in TokenChars
          /\ \A i \in (k+1)..Len(value) : value[i] = "="

\* token_match.group(1)
group1(value) == Tail(value)

Methods == {"GET", "POST", "PUT", "DELETE", "HEAD"}

ResourceNames == {"id", "email"}

\* resource_auth_error that names no scope in the challenge
resource_auth_error_NoScope(name, message) ==
    Response(message, 401, "WWW-Authenticate" :> <<"Bearer", "Token Required", "">>)

\* resource_auth_error(message) of provides_resource(name)
resource_auth_error(name, message) ==
    Response(message, 401, "WWW-Authenticate" :> <<"Bearer", "Token Required", name>>)

\* What the wrapped function f does when called: it returns a value that jsonify can
\* or cannot serialise, or raises.  "isException" is whether what it raises is an
\* instance of Exception (SystemExit and KeyboardInterrupt are not); "unicodeable" is
\* whether unicode(exception) succeeds: for a ValueError whose message is a byte
\* string with a non-ASCII byte it raises UnicodeDecodeError.
HandlerOutcomes ==
    {[kind |-> "return", value |-> "v", serialisable |-> TRUE],
     [kind |-> "return", value |-> "obj", serialisable |-> FALSE]}
    \cup
    {[kind |-> "raise", cls |-> "ValueError", message |-> "bad",
      isException |-> TRUE, unicodeable |-> TRUE],
     [kind |-> "raise", cls |-> "ValueError", message |-> "bytes",
      isException |-> TRUE, unicodeable |-> FALSE],
     [kind |-> "raise", cls |-> "SystemExit", message |-> "bye",
      isException |-> FALSE, unicodeable |-> TRUE]}

\* jsonify without the response headers of lines 106-107
jsonify_NoCacheHeaders(body) ==
    [raised |-> "", status |-> 200, body |-> body, headers |-> EmptyMap]

\* jsonify(...) with the two response headers set afterwards (lines 106-107)
jsonify(body) ==
    [raised |-> "", status |-> 200, body |-> body,
     headers |-> ("Cache-Control" :> <<"no-store">>) @@ ("Pragma" :> <<"no-cache">>)]

\* dispatch that returns the result without the "status" member
dispatch_NoStatusMember(out) ==
    IF out.kind = "return"
    THEN IF out.serialisable
         THEN jsonify([result |-> out.value])
         ELSE jsonify([error |-> "TypeError", error_description |-> "not JSON serializable"])
    ELSE IF ~out.isException THEN Raise(out.cls)
    ELSE IF ~out.unicodeable THEN Raise("UnicodeDecodeError")
    ELSE jsonify([error |-> out.cls, error_description |-> out.message])

\* Lines 97-108: the call of f and the envelope built from what it does.  Line 100
\* catches Exception only: anything else that f raises leaves the function.
dispatch(out) ==
    IF out.kind = "return"
    THEN IF out.serialisable
         THEN jsonify([status |-> "ok", result |-> out.value])
         ELSE jsonify([status |-> "error", error |-> "TypeError",
                       error_description |-> "not JSON serializable"])
    ELSE IF ~out.isException THEN Raise(out.cls)
    ELSE IF ~out.unicodeable THEN Raise("UnicodeDecodeError")
    ELSE jsonify([status |-> "error", error |-> out.cls, error_description |-> out.message])

\* authorize without the scope test of line 94
authorize_NoScopeTest(name, token, args, tokens, out) ==
    IF token \notin DOMAIN tokens
    THEN [response |-> resource_auth_error(name, "Unknown access token."), calls |-> <<>>]
    ELSE [response |-> dispatch(out),
          calls |-> <<[authtoken |-> token, args |-> args, files |-> {}, outcome |-> out]>>]

\* Lines 91-108, once a token has been extracted.
authorize(name, token, args, tokens, out) ==
    IF token \notin DOMAIN tokens
    THEN [response |-> resource_auth_error(name, "Unknown access token."), calls |-> <<>>]
    ELSE IF name \notin tokens[token]
    THEN [response |-> resource_auth_error(name, "Token does not provide access to this resource."),
          calls |-> <<>>]
    ELSE [response |-> dispatch(out),
          calls |-> <<[authtoken |-> token, args |-> args, files |-> {}, outcome |-> out]>>]

\* decorated_function of provides_resource(name): the response it returns or the
\* exception it raises, and the calls of f it makes.  The local "args" is bound only
\* for the four methods of lines 73-76; reading it for another method raises
\* UnboundLocalError.
decorated_function(name, req, tokens, out) ==
    LET bound == req.method \in {"GET", "POST", "PUT", "DELETE"}
        args == IF req.method = "GET" THEN req.args ELSE req.form
    IN  IF "Authorization" \in DOMAIN req.headers
        THEN IF ~auth_bearer_re(req.headers["Authorization"])
             THEN [response |-> resource_auth_error(name,
                                   "A Bearer token is required in the Authorization header."),
                   calls |-> <<>>]
             ELSE IF ~bound
             THEN [response |-> Raise("UnboundLocalError"), calls |-> <<>>]
             ELSE IF "access_token" \in DOMAIN args
             THEN [response |-> resource_auth_error(name,
                                   "Access token specified in both header and body."),
                   calls |-> <<>>]
             ELSE authorize(name, group1(req.headers["Authorization"]), args, tokens, out)
        ELSE IF ~bound
             THEN [response |-> Raise("UnboundLocalError"), calls |-> <<>>]
             ELSE IF Get(args, "access_token") = <<>>
             THEN [response |-> resource_auth_error(name,
                                   "An access token is required to access this resource."),
                   calls |-> <<>>]
             ELSE authorize(name, args["access_token"], args, tokens, out)

\* resource_details(name): __resources.get(name)
resource_details(registry, name) ==
    IF name \in DOMAIN registry THEN registry[name] ELSE None

\* wrapper(f) of provides_resource(name), lines 110-112: f is stored under the name,
\* replacing what was there, and the endpoint that closes over name and f is returned.
wrapper(name, f, registry) ==
    [registry |-> (name :> f) @@ registry, endpoint |-> [name |-> name, f |-> f]]

\* A call of the endpoint that wrapper returned: decorated_function with the name and
\* the f of its closure; the call it makes is a call of that f (line 98).
endpoint_call(ep, req, tokens, out) ==
    LET r == decorated_function(ep.name, req, tokens, out)
    IN  [response |-> r.response,
         calls |-> IF r.calls = <<>> THEN <<>>
                   ELSE <<[f |-> ep.f, authtoken |-> r.calls[1].authtoken,
                           args |-> r.calls[1].args, files |-> r.calls[1].files,
                           outcome |-> r.calls[1].outcome]>>]

----------------------------------------------------------------------------
(* requires_client_login *)

\* Client.secret_is(candidate), of lastuserapp.models
secret_is(client, candidate) == client.secret = candidate

\* Client.query.filter_by(key=username).first(): the row, or None
first_client(clienttable, username) ==
    IF username \in DOMAIN clienttable
    THEN [key |-> username, active |-> clienttable[username].active,
          secret |-> clienttable[username].secret]
    ELSE [key |-> None, active |-> FALSE, secret |-> None]

BasicChallenge == "WWW-Authenticate" :> <<"Basic", "Client credentials">>

\* What a plain view function f returns or raises (no envelope, no try).
view_result(out) ==
    IF out.kind = "return" THEN Response(out.value, 200, EmptyMap) ELSE Raise(out.cls)

\* requires_client_login that tells an unknown key from a wrong secret
requires_client_login_TellsUnknown(req, gctx, clienttable, out) ==
    IF req.authorization = <<>>
    THEN [response |-> Response("Client credentials required.", 401, BasicChallenge),
          g |-> gctx, calls |-> <<>>]
    ELSE LET auth == req.authorization[1]
             client == first_client(clienttable, auth.username)
         IN  IF client.key = None
             THEN [response |-> Response("Unknown client.", 401, BasicChallenge),
                   g |-> gctx, calls |-> <<>>]
             ELSE IF ~client.active \/ ~secret_is(client, auth.password)
             THEN [response |-> Response("Invalid client credentials.", 401, BasicChallenge),
                   g |-> gctx, calls |-> <<>>]
             ELSE [response |-> view_result(out),
                   g |-> ("client" :> client) @@ gctx,
                   calls |-> <<[client |-> client, outcome |-> out]>>]

\* requires_client_login without the test of client.active
requires_client_login_NoActiveTest(req, gctx, clienttable, out) ==
    IF req.authorization = <<>>
    THEN [response |-> Response("Client credentials required.", 401, BasicChallenge),
          g |-> gctx, calls |-> <<>>]
    ELSE LET auth == req.authorization[1]
             client == first_client(clienttable, auth.username)
         IN  IF client.key = None \/ ~secret_is(client, auth.password)
             THEN [response |-> Response("Invalid client credentials.", 401, BasicChallenge),
                   g |-> gctx, calls |-> <<>>]
             ELSE [response |-> view_result(out),
                   g |-> ("client" :> client) @@ gctx,
                   calls |-> <<[client |-> client, outcome |-> out]>>]

\* decorated_function of requires_client_login(f): the response, g afterwards and
\* the calls of f.  request.authorization is werkzeug's parse of the Basic
\* credentials: <<>> for None, else one record [username, password].
requires_client_login(req, gctx, clienttable, out) ==
    IF req.authorization = <<>>
    THEN [response |-> Response("Client credentials required.", 401, BasicChallenge),
          g |-> gctx, calls |-> <<>>]
    ELSE LET auth == req.authorization[1]
             client == first_client(clienttable, auth.username)
         IN  IF client.key = None \/ ~client.active \/ ~secret_is(client, auth.password)
             THEN [response |-> Response("Invalid client credentials.", 401, BasicChallenge),
                   g |-> gctx, calls |-> <<>>]
             ELSE [response |-> view_result(out),
                   g |-> ("client" :> client) @@ gctx,
                   calls |-> <<[client |-> client, outcome |-> out]>>]

----------------------------------------------------------------------------
(* lookup_current_user and the avatar helpers *)

\* The symbols a URL is made of: a scheme with its colon, the "//" before a host,
\* a host name, a path.
SchemeSymbols == {"http:", "https:"}

HostSymbols == {"a.example", "b.example"}

UrlSymbols == SchemeSymbols \cup HostSymbols \cup {"//", "/x"}

\* str.startswith(prefix) for a prefix that is one symbol
startswith(s, prefix) == Len(s) >= 1 /\ s[1] = prefix

\* avatar_url_email(useremail)
avatar_url_email(req, md5sum) ==
    IF startswith(req.url, "https:")
    THEN <<"https:", "//", "secure.gravatar.com", "/avatar/", md5sum>>
    ELSE <<"http:", "//", "www.gravatar.com", "/avatar/", md5sum>>

\* What a third-party lookup does: it answers, raises URLError, raises another error
\* (socket.timeout, httplib.BadStatusLine), or answers with a payload json.loads rejects.
NetOutcomes == {"ok", "URLError", "timeout", "malformed"}

\* avatar_url_twitter(twitterid): [raised, value], value <<>> for None
avatar_url_twitter(twitterid, net) ==
    IF twitterid = "" THEN [raised |-> "", value |-> <<>>]
    ELSE IF net = "URLError" THEN [raised |-> "", value |-> <<>>]
    ELSE IF net = "timeout" THEN [raised |-> "timeout", value |-> <<>>]
    ELSE [raised |-> "", value |-> <<"http:", "//", "img.twitter", "/", twitterid>>]

\* avatar_url_github(githubid): [raised, value], value <<>> for None
avatar_url_github(githubid, net) ==
    IF githubid = "" THEN [raised |-> "", value |-> <<>>]
    ELSE IF net = "URLError" THEN [raised |-> "", value |-> <<>>]
    ELSE IF net = "timeout" THEN [raised |-> "timeout", value |-> <<>>]
    ELSE IF net = "malformed" THEN [raised |-> "ValueError", value |-> <<>>]
    ELSE [raised |-> "", value |-> <<"https:", "//", "img.github", "/", githubid>>]

\* session.get('userid_external', {}).get('service')
external_service(sess) ==
    IF "userid_external" \in DOMAIN sess THEN sess["userid_external"].service ELSE None

\* lookup_current_user that leaves a cached avatar in a session without a user id
lookup_current_user_KeepsAvatar(req, sess, usertable, net) ==
    IF "userid" \in DOMAIN sess
    THEN LET user == IF sess["userid"] \in DOMAIN usertable THEN sess["userid"] ELSE None
             g1 == "user" :> user
         IN  IF "avatar_url" \in DOMAIN sess
             THEN [raised |-> "", session |-> sess,
                   g |-> g1 @@ ("avatar_url" :> sess["avatar_url"]), lookups |-> <<>>]
             ELSE IF user = None
             THEN [raised |-> "AttributeError", session |-> sess, g |-> g1, lookups |-> <<>>]
             ELSE LET via == IF usertable[user].email # "" THEN "email"
                             ELSE IF external_service(sess) = "twitter" THEN "twitter"
                             ELSE IF external_service(sess) = "github" THEN "github"
                             ELSE "none"
                      looked ==
                          IF via = "email"
                          THEN [raised |-> "", value |-> avatar_url_email(req, usertable[user].email)]
                          ELSE IF via = "twitter"
                          THEN avatar_url_twitter(sess["userid_external"].username, net)
                          ELSE IF via = "github"
                          THEN avatar_url_github(sess["userid_external"].userid, net)
                          ELSE [raised |-> "", value |-> <<>>]
                      made == <<[via |-> via, user |-> user, net |-> net,
                                 raised |-> looked.raised, value |-> looked.value]>>
                  IN  IF looked.raised # ""
                      THEN [raised |-> looked.raised, session |-> sess, g |-> g1,
                            lookups |-> made]
                      ELSE [raised |-> "",
                            session |-> ("avatar_url" :> looked.value) @@ sess,
                            g |-> g1 @@ ("avatar_url" :> looked.value),
                            lookups |-> made]
    ELSE [raised |-> "",
          session |-> sess,
          g |-> ("user" :> None) @@ ("avatar_url" :> <<>>),
          lookups |-> <<>>]

\* lookup_current_user without the test of line 149: the avatar is derived on every
\* request of a session with a user id
lookup_current_user_AlwaysComputes(req, sess, usertable, net) ==
    IF "userid" \in DOMAIN sess
    THEN LET user == IF sess["userid"] \in DOMAIN usertable THEN sess["userid"] ELSE None
             g1 == "user" :> user
         IN  IF user = None
             THEN [raised |-> "AttributeError", session |-> sess, g |-> g1, lookups |-> <<>>]
             ELSE LET via == IF usertable[user].email # "" THEN "email"
                             ELSE IF external_service(sess) = "twitter" THEN "twitter"
                             ELSE IF external_service(sess) = "github" THEN "github"
                             ELSE "none"
                      looked ==
                          IF via = "email"
                          THEN [raised |-> "", value |-> avatar_url_email(req, usertable[user].email)]
                          ELSE IF via = "twitter"
                          THEN avatar_url_twitter(sess["userid_external"].username, net)
                          ELSE IF via = "github"
                          THEN avatar_url_github(sess["userid_external"].userid, net)
                          ELSE [raised |-> "", value |-> <<>>]
                      made == <<[via |-> via, user |-> user, net |-> net,
                                 raised |-> looked.raised, value |-> looked.value]>>
                  IN  IF looked.raised # ""
                      THEN [raised |-> looked.raised, session |-> sess, g |-> g1,
                            lookups |-> made]
                      ELSE [raised |-> "",
                            session |-> ("avatar_url" :> looked.value) @@ sess,
                            g |-> g1 @@ ("avatar_url" :> looked.value),
                            lookups |-> made]
    ELSE [raised |-> "",
          session |-> [k \in DOMAIN sess \ {"avatar_url"} |-> sess[k]],
          g |-> ("user" :> None) @@ ("avatar_url" :> <<>>),
          lookups |-> <<>>]

\* lookup_current_user: [raised, session, g] after the hook, for the session it finds,
\* and the avatar computations it made (which branch of lines 150-157, with what result).
lookup_current_user(req, sess, usertable, net) ==
    IF "userid" \in DOMAIN sess
    THEN LET user == IF sess["userid"] \in DOMAIN usertable THEN sess["userid"] ELSE None
             g1 == "user" :> user
         IN  IF "avatar_url" \in DOMAIN sess
             THEN [raised |-> "", session |-> sess,
                   g |-> g1 @@ ("avatar_url" :> sess["avatar_url"]), lookups |-> <<>>]
             ELSE IF user = None
             THEN [raised |-> "AttributeError", session |-> sess, g |-> g1, lookups |-> <<>>]
             ELSE LET via == IF usertable[user].email # "" THEN "email"
                             ELSE IF external_service(sess) = "twitter" THEN "twitter"
                             ELSE IF external_service(sess) = "github" THEN "github"
                             ELSE "none"
                      looked ==
                          IF via = "email"
                          THEN [raised |-> "", value |-> avatar_url_email(req, usertable[user].email)]
                          ELSE IF via = "twitter"
                          THEN avatar_url_twitter(sess["userid_external"].username, net)
                          ELSE IF via = "github"
                          THEN avatar_url_github(sess["userid_external"].userid, net)
                          ELSE [raised |-> "", value |-> <<>>]
                      made == <<[via |-> via, user |-> user, net |-> net,
                                 raised |-> looked.raised, value |-> looked.value]>>
                  IN  IF looked.raised # ""
                      THEN [raised |-> looked.raised, session |-> sess, g |-> g1,
                            lookups |-> made]
                      ELSE [raised |-> "",
                            session |-> ("avatar_url" :> looked.value) @@ sess,
                            g |-> g1 @@ ("avatar_url" :> looked.value),
                            lookups |-> made]
    ELSE [raised |-> "",
          session |-> [k \in DOMAIN sess \ {"avatar_url"} |-> sess[k]],
          g |-> ("user" :> None) @@ ("avatar_url" :> <<>>),
          lookups |-> <<>>]

----------------------------------------------------------------------------
(* requires_login, get_next_url, login_internal, logout_internal *)

\* url_for('index'), url_for('login')
IndexUrl == <<"/">>

LoginUrl == <<"/login">>

\* dict.pop(key, None): the dict without the key
Pop(d, key) == [k \in DOMAIN d \ {key} |-> d[k]]

\* dict[key] = value
Put(d, key, value) == (key :> value) @@ d

\* flash(message, category): the pair joins session['_flashes'], kept here as the set
\* of the (category, message) pairs waiting to be shown.
flash_category(sess, message, category) ==
    Put(sess, "_flashes",
        (IF "_flashes" \in DOMAIN sess THEN sess["_flashes"] ELSE {})
            \cup {<<category, message>>})

\* flash(message): the category defaults to "message"
flash(sess, message) == flash_category(sess, message, "message")

\* redirect(location)
redirect(location) == Response("", 302, "Location" :> location)

\* decorated_function of requires_login(f): the response and the session afterwards.
requires_login(req, gctx, sess, out) ==
    IF gctx["user"] = None
    THEN [response |-> redirect(LoginUrl),
          session |-> Put(flash(sess, "You need to be logged in for that page"), "next", req.url),
          calls |-> <<>>]
    ELSE [response |-> view_result(out), session |-> sess,
          calls |-> <<[user |-> gctx["user"], outcome |-> out]>>]

\* The least index of a symbol of S in the sequence, 0 when there is none.
IndexIn(seq, S) ==
    IF \E i \in 1..Len(seq) : seq[i] \in S
    THEN CHOOSE i \in 1..Len(seq) : seq[i] \in S /\ \A j \in 1..(i-1) : seq[j] \notin S
    ELSE 0

\* urlparse.urlsplit(url).hostname, <<>> for None.  The scheme is what precedes the
\* first ":" when that is made of scheme characters only (letters, digits, "+-.":
\* the host symbols are, "//" and "/x" are not); the netloc is what follows a leading
\* "//" up to the next "/"; the hostname is the netloc up to its first ":".
urlsplit_hostname(url) ==
    LET j == IndexIn(url, SchemeSymbols)
        hasScheme == j > 0 /\ \A i \in 1..(j-1) : url[i] \in HostSymbols
        rest == IF hasScheme THEN SubSeq(url, j+1, Len(url)) ELSE url
        after == Tail(rest)
        slash == IndexIn(after, {"//", "/x"})
        netloc == IF slash = 0 THEN after ELSE SubSeq(after, 1, slash-1)
        colon == IndexIn(netloc, SchemeSymbols)
    IN  IF ~startswith(rest, "//") THEN <<>>
        ELSE IF colon = 0 THEN netloc
        ELSE SubSeq(netloc, 1, colon-1)
                \o <<IF netloc[colon] = "http:" THEN "http" ELSE "https">>

\* get_next_url that tries the request's next parameter before session['next']
get_next_url_ParameterFirst(referrer, external, req, sess) ==
    LET stored == Get(sess, "next")
        popped == Pop(sess, "next")
        param == Get(req.args, "next")
        absolute == startswith(param, "http:") \/ startswith(param, "https:")
                        \/ startswith(param, "//")
        next_url == IF ~external /\ absolute
                        /\ urlsplit_hostname(param) # urlsplit_hostname(req.url)
                    THEN <<>> ELSE param
        ref == Get(req.headers, "Referer")
    IN  IF next_url # <<>>
        THEN [value |-> next_url, source |-> "parameter", session |-> popped]
        ELSE IF stored # <<>> THEN [value |-> stored, source |-> "session", session |-> popped]
        ELSE IF referrer /\ ref # <<>>
        THEN [value |-> ref, source |-> "referrer", session |-> popped]
        ELSE [value |-> IndexUrl, source |-> "index", session |-> popped]

\* get_next_url that reads session['next'] without removing it
get_next_url_NoPop(referrer, external, req, sess) ==
    LET stored == Get(sess, "next")
        param == Get(req.args, "next")
        absolute == startswith(param, "http:") \/ startswith(param, "https:")
                        \/ startswith(param, "//")
        next_url == IF ~external /\ absolute
                        /\ urlsplit_hostname(param) # urlsplit_hostname(req.url)
                    THEN <<>> ELSE param
        ref == Get(req.headers, "Referer")
    IN  IF stored # <<>> THEN [value |-> stored, source |-> "session", session |-> sess]
        ELSE IF next_url # <<>>
        THEN [value |-> next_url, source |-> "parameter", session |-> sess]
        ELSE IF referrer /\ ref # <<>>
        THEN [value |-> ref, source |-> "referrer", session |-> sess]
        ELSE [value |-> IndexUrl, source |-> "index", session |-> sess]

\* get_next_url(referrer, external): the URL returned, where it came from, and the
\* session afterwards.
get_next_url(referrer, external, req, sess) ==
    LET stored == Get(sess, "next")
        popped == Pop(sess, "next")
        param == Get(req.args, "next")
        absolute == startswith(param, "http:") \/ startswith(param, "https:")
                        \/ startswith(param, "//")
        next_url == IF ~external /\ absolute
                        /\ urlsplit_hostname(param) # urlsplit_hostname(req.url)
                    THEN <<>> ELSE param
        ref == Get(req.headers, "Referer")
    IN  IF stored # <<>> THEN [value |-> stored, source |-> "session", session |-> popped]
        ELSE IF next_url # <<>>
        THEN [value |-> next_url, source |-> "parameter", session |-> popped]
        ELSE IF referrer /\ ref # <<>>
        THEN [value |-> ref, source |-> "referrer", session |-> popped]
        ELSE [value |-> IndexUrl, source |-> "index", session |-> popped]

\* login_internal(user): [g, session] afterwards
login_internal(user, gctx, sess) ==
    [g |-> Put(gctx, "user", user), session |-> Put(sess, "userid", user)]

\* logout_internal(): [g, session] afterwards; session.permanent is the session key
\* '_permanent'.
logout_internal(gctx, sess) ==
    [g |-> Put(gctx, "user", None),
     session |-> Put(Pop(Pop(sess, "userid"), "userid_external"), "_permanent", FALSE)]

\* register_internal(username, fullname, password): the records added to the db
\* session after db.session.add(user); nothing is committed, the User table is as it
\* was.  The new record has the user id the User model gave it, no email address, and
\* the username, None when it was empty (lines 199-200).
register_internal(userid, username, added) ==
    (userid :> [email |-> "", username |-> IF username = "" THEN None ELSE username])
        @@ added

\* render_delete(ob, title, message, success, next) on a request that is not XHR:
\* [response, users, session, pending] afterwards.  "validated" is what
\* form.validate_on_submit() returns; next is <<>> for None.  db.session.commit()
\* (line 233) writes the deletion and whatever the request added before; a record
\* added under a user id that a remaining record has violates the unique key.
render_delete(ob, validated, success, next, req, usertable, sess, added) ==
    LET deletes == "delete" \in DOMAIN req.form
        remaining == [u \in DOMAIN usertable \ {ob} |-> usertable[u]]
    IN  IF ob = None
        THEN [response |-> Raise("NotFound"), users |-> usertable, session |-> sess,
              pending |-> added]
        ELSE IF ~validated
        THEN [response |-> Response("delete.html", 200, EmptyMap),
              users |-> usertable, session |-> sess, pending |-> added]
        ELSE IF ~deletes
        THEN [response |-> redirect(IF next # <<>> THEN next ELSE IndexUrl),
              users |-> usertable, session |-> sess, pending |-> added]
        ELSE IF DOMAIN added \cap DOMAIN remaining # {}
        THEN [response |-> Raise("IntegrityError"), users |-> usertable, session |-> sess,
              pending |-> added]
        ELSE [response |-> redirect(IF next # <<>> THEN next ELSE IndexUrl),
              users |-> added @@ remaining,
              session |-> IF success # "" THEN flash_category(sess, success, "info")
                          ELSE sess,
              pending |-> EmptyMap]

----------------------------------------------------------------------------
(* The request cycle *)

\* The test of lines 147-155 for a call of urlopen: the session has a user id and no
\* cached avatar, the user exists and has no email address, and the external identity
\* is a twitter one with a username or a github one with a user id.
needs_urlopen(sess, usertable) ==
    /\ "userid" \in DOMAIN sess
    /\ "avatar_url" \notin DOMAIN sess
    /\ sess["userid"] \in DOMAIN usertable
    /\ usertable[sess["userid"]].email = ""
    /\ \/ external_service(sess) = "twitter" /\ sess["userid_external"].username # ""
       \/ external_service(sess) = "github" /\ sess["userid_external"].userid # ""

\* The User object that line 148 put in g.user, as lines 150-157 go on reading it
\* while the hook waits in urlopen: a user whose email line 150 found empty.
loaded_user(gctx) == gctx["user"] :> [email |-> ""]

\* A request arrives and the before_request hook runs; if the hook raises, the view
\* is never reached.  When the hook calls urlopen (lines 126, 134) it has read the
\* User table (line 148), and waits: the step ends there, with g.user set and the
\* session as it was.
BeforeRequest(Requests) ==
    /\ pc = "idle"
    /\ \E req \in Requests :
          LET r == lookup_current_user(req, session, users, "ok")
              waits == needs_urlopen(session, users)
          IN  /\ request' = req
              /\ session' = IF waits THEN session ELSE r.session
              /\ g' = IF waits THEN "user" :> session["userid"] ELSE r.g
              /\ response' = IF ~waits /\ r.raised # "" THEN Raise(r.raised) ELSE NoResponse
              /\ pc' = IF waits THEN "lookup"
                       ELSE IF r.raised # "" THEN "aborted" ELSE "view"
              /\ lookups' = IF waits THEN <<>> ELSE r.lookups
    /\ calls' = <<>>
    /\ returned' = <<>>
    /\ UNCHANGED <<stores, pending>>

\* urlopen answers, or fails, and the hook goes on from line 126 or 134 to line 158
\* with the user it loaded before the wait; it does not read the User table again.
LookupReturns(Nets) ==
    /\ pc = "lookup"
    /\ \E net \in Nets :
          LET r == lookup_current_user(request, session, loaded_user(g), net)
          IN  /\ session' = r.session
              /\ g' = r.g
              /\ response' = IF r.raised # "" THEN Raise(r.raised) ELSE NoResponse
              /\ pc' = IF r.raised # "" THEN "aborted" ELSE "view"
              /\ lookups' = r.lookups
    /\ UNCHANGED <<pending, stores, request, calls, returned>>

\* The request context is popped: g and request are gone, and so is the db session
\* with what was added and not committed; the session stays.
Teardown ==
    /\ pc \in {"view", "done", "aborted"}
    /\ pc' = "idle"
    /\ request' = NoRequest
    /\ response' = NoResponse
    /\ g' = EmptyMap
    /\ calls' = <<>>
    /\ returned' = <<>>
    /\ lookups' = <<>>
    /\ pending' = EmptyMap
    /\ UNCHANGED <<stores, session>>

\* The view of a resource endpoint: decorated_function of provides_resource(name).
ResourceView ==
    /\ pc = "view"
    /\ request.view = "resource"
    /\ \E out \in HandlerOutcomes :
          LET r == endpoint_call([name |-> request.name, f |-> request.f],
                                 request, authtokens, out)
          IN  /\ response' = r.response
              /\ calls' = r.calls
    /\ pc' = "done"
    /\ UNCHANGED <<pending, stores, session, g, request, returned, lookups>>

\* The view of a client endpoint: decorated_function of requires_client_login(f).
ClientView ==
    /\ pc = "view"
    /\ request.view = "client"
    /\ \E out \in HandlerOutcomes :
          LET r == requires_client_login(request, g, clients, out)
          IN  /\ response' = r.response
              /\ g' = r.g
              /\ calls' = r.calls
    /\ pc' = "done"
    /\ UNCHANGED <<pending, stores, session, request, returned, lookups>>

\* The view of a page that requires a login: decorated_function of requires_login(f).
LoginRequiredView ==
    /\ pc = "view"
    /\ request.view = "login_required"
    /\ \E out \in HandlerOutcomes :
          LET r == requires_login(request, g, session, out)
          IN  /\ response' = r.response
              /\ session' = r.session
              /\ calls' = r.calls
    /\ pc' = "done"
    /\ UNCHANGED <<pending, stores, g, request, returned, lookups>>

\* A page view (login, logout, confirmation pages) calls get_next_url.
CallGetNextUrl ==
    /\ pc = "view"
    /\ request.view = "page"
    /\ \E referrer \in BOOLEAN, external \in BOOLEAN :
          LET r == get_next_url(referrer, external, request, session)
          IN  /\ session' = r.session
              /\ returned' = <<[referrer |-> referrer, external |-> external,
                                value |-> r.value, source |-> r.source]>>
    /\ UNCHANGED <<pending, stores, g, request, response, calls, pc, lookups>>

\* A page view logs a user in: one of the User table, or the one it has just added.
CallLoginInternal ==
    /\ pc = "view"
    /\ request.view = "page"
    /\ \E user \in DOMAIN users \cup DOMAIN pending :
          LET r == login_internal(user, g, session)
          IN  g' = r.g /\ session' = r.session
    /\ UNCHANGED <<pending, stores, request, response, calls, returned, lookups, pc>>

\* A page view logs the user out.
CallLogoutInternal ==
    /\ pc = "view"
    /\ request.view = "page"
    /\ LET r == logout_internal(g, session)
       IN  g' = r.g /\ session' = r.session
    /\ UNCHANGED <<pending, stores, request, response, calls, returned, lookups, pc>>

\* A page view of an external login (twitter, github) stores the external identity
\* in the session and logs the user in.
CallLoginExternal(ExternalIds) ==
    /\ pc = "view"
    /\ request.view = "page"
    /\ \E user \in DOMAIN users, ext \in ExternalIds :
          LET r == login_internal(user, g, session)
          IN  g' = r.g /\ session' = Put(r.session, "userid_external", ext)
    /\ UNCHANGED <<pending, stores, request, response, calls, returned, lookups, pc>>

\* At import time a module applies @provides_resource(name) to a function.
Register(Names, Handlers, Max) ==
    /\ pc = "startup"
    /\ Cardinality(endpoints) < Max
    /\ \E name \in Names, f \in Handlers :
          LET r == wrapper(name, f, resources)
          IN  /\ resources' = r.registry
              /\ endpoints' = endpoints \cup {r.endpoint}
    /\ UNCHANGED <<pending, authtokens, clients, users, session, g, request, response, calls,
                   returned, lookups, pc>>

\* The imports are done and the application starts to serve requests.
Serve ==
    /\ pc = "startup"
    /\ pc' = "idle"
    /\ UNCHANGED <<pending, stores, session, g, request, response, calls, returned, lookups>>

\* A page view (the registration page) adds a user record to the db session; the
\* record gets a user id that no other record has.
CallRegisterInternal(UserIds, Usernames) ==
    /\ pc = "view"
    /\ request.view = "page"
    /\ \E userid \in UserIds \ (DOMAIN users \cup DOMAIN pending), username \in Usernames :
          pending' = register_internal(userid, username, pending)
    /\ UNCHANGED <<stores, session, g, request, response, calls, returned, lookups, pc>>

\* A page view (a confirmation page) calls render_delete for a user record, or for
\* None, and returns what it returns.  The form validates only when it was
\* submitted, with POST or PUT.
CallRenderDelete(Successes) ==
    /\ pc = "view"
    /\ request.view = "page"
    /\ \E ob \in DOMAIN users \cup {None}, success \in Successes,
          validated \in IF request.method \in {"POST", "PUT"} THEN BOOLEAN ELSE {FALSE} :
          LET r == render_delete(ob, validated, success, <<>>, request, users, session,
                                 pending)
          IN  /\ response' = r.response
              /\ users' = r.users
              /\ session' = r.session
              /\ pending' = r.pending
    /\ pc' = "done"
    /\ UNCHANGED <<authtokens, clients, resources, endpoints, g, request, calls,
                   returned, lookups>>

\* Another request, served while this one is idle, waiting or in its view, removes a
\* user record from the User table.
DeleteUser ==
    /\ \E u \in DOMAIN users : users' = [v \in DOMAIN users \ {u} |-> users[v]]
    /\ UNCHANGED <<pending, authtokens, clients, resources, endpoints, session, g, request,
                   response, calls, returned, lookups, pc>>

----------------------------------------------------------------------------
(* The resource endpoints *)

\* The AuthToken table: one token that grants "id" only, one that grants both
\* resources.  Every other token is unknown.
AuthTokens ==
    (<<"a">> :> {"id"}) @@ (<<"a", "=">> :> {"id", "email"})

\* access_token values a request parameter carries
ParamTokens == {<<>>, <<"a">>, <<"a", "a">>}

Params == {EmptyMap} \cup {"access_token" :> t : t \in ParamTokens}

HeaderValues == SeqsUpTo(HeaderSymbols, MaxHeaderLen)

RequestUrl == <<"http:", "//", "a.example", "/x">>

\* The endpoints the process starts with: each resource name registered once.
Endpoints == {[name |-> n, f |-> "resource_" \o n] : n \in ResourceNames}

\* __resources after those registrations
Resources == [n \in ResourceNames |-> "resource_" \o n]

ResourceRequests ==
    {[view |-> "resource", name |-> e.name, f |-> e.f, method |-> m, url |-> RequestUrl,
      headers |-> h, authorization |-> <<>>, args |-> a, form |-> f] :
        e \in Endpoints, m \in Methods,
        h \in {EmptyMap} \cup {"Authorization" :> v : v \in HeaderValues},
        a \in Params, f \in Params}

InitCommon ==
    /\ authtokens = AuthTokens
    /\ users = EmptyMap
    /\ resources = Resources
    /\ endpoints = Endpoints
    /\ lookups = <<>>
    /\ session = EmptyMap
    /\ g = EmptyMap
    /\ request = NoRequest
    /\ response = NoResponse
    /\ calls = <<>>
    /\ returned = <<>>
    /\ pending = EmptyMap
    /\ pc = "idle"

InitResource ==
    /\ InitCommon
    /\ clients = EmptyMap

NextResource ==
    \/ BeforeRequest(ResourceRequests)
    \/ ResourceView
    \/ Teardown

SpecResource == InitResource /\ [][NextResource]_vars

----------------------------------------------------------------------------
(* Claims about the resource endpoints (SpecResource) *)

\* The view of a resource endpoint has run.
ResourceDone == pc = "done" /\ request.view = "resource"

HasAuthHeader == "Authorization" \in DOMAIN request.headers

WellFormedHeader == HasAuthHeader /\ auth_bearer_re(request.headers["Authorization"])

\* The parameter set that goes with the method: the query parameters of a read
\* (GET, HEAD), the form parameters of a POST, PUT or DELETE.
MethodParams == IF request.method \in {"GET", "HEAD"} THEN request.args ELSE request.form

\* A token with the shape the Bearer grammar asks for.
WellFormedToken(t) == auth_bearer_re(<<"Bearer ">> \o t)

\* The request presents exactly one token, t: in a well-formed header with no
\* access_token parameter, or as a non-empty parameter with no header.
Presents(t) ==
    \/ /\ WellFormedHeader
       /\ "access_token" \notin DOMAIN MethodParams
       /\ t = group1(request.headers["Authorization"])
    \/ /\ ~HasAuthHeader
       /\ "access_token" \in DOMAIN MethodParams
       /\ t = MethodParams["access_token"]
       /\ t # <<>>

Is401(message) ==
    /\ response.raised = ""
    /\ response.status = 401
    /\ response.body = [text |-> message]

\* C1: a request with a well-formed Bearer header and an access_token parameter is
\* answered 401 and the handler is not invoked, for every method and every pair of
\* token values.
C1_HeaderAndParameterRejected ==
    (ResourceDone /\ WellFormedHeader /\ "access_token" \in DOMAIN MethodParams)
        => (response.raised = "" /\ response.status = 401 /\ calls = <<>>)

\* C2: the handler is executed only in a request whose extracted token resolves to an
\* AuthToken whose scope holds the resource name, and it is executed with that token;
\* a request that ends in a 401 has not invoked the handler, and the step that returns
\* the 401 changes neither the stores, the session nor g.
C2_HandlerOnlyWhenAuthorized ==
    /\ [](ResourceDone =>
            /\ (calls # <<>> =>
                   /\ Len(calls) = 1
                   /\ Presents(calls[1].authtoken)
                   /\ calls[1].authtoken \in DOMAIN authtokens
                   /\ request.name \in authtokens[calls[1].authtoken])
            /\ (response.status = 401 => calls = <<>>))
    /\ [][(pc = "view" /\ pc' = "done" /\ response'.status = 401)
            => UNCHANGED <<stores, session, g, request>>]_vars

\* C2's case: the handler ran on a token taken from the header.
C2_Witness == ResourceDone /\ calls # <<>> /\ HasAuthHeader

\* C3: a request presenting a well-formed bearer token that is not in the TokenStore
\* is answered 401 "Unknown access token."
C3_UnknownTokenRejected ==
    \A t \in SeqsUpTo(HeaderSymbols, MaxHeaderLen) :
        (ResourceDone /\ Presents(t) /\ WellFormedToken(t) /\ t \notin DOMAIN authtokens)
            => Is401("Unknown access token.")

\* C4: a request presenting a token of the TokenStore whose scope does not hold the
\* resource name is answered with the 401 scope failure.
C4_ScopeFailureRejected ==
    \A t \in DOMAIN authtokens :
        (ResourceDone /\ Presents(t) /\ request.name \notin authtokens[t])
            => Is401("Token does not provide access to this resource.")

\* C5: no exception escapes the endpoint: every request is answered 401 or 200, and
\* when the handler raises the answer is the error envelope naming the exception.
C5_NoExceptionEscapes ==
    ResourceDone =>
        /\ response.raised = ""
        /\ response.status \in {401, 200}
        /\ (calls # <<>> /\ calls[1].outcome.kind = "raise") =>
               response.body = [status |-> "error", error |-> calls[1].outcome.cls,
                                error_description |-> calls[1].outcome.message]

\* C6: a request without an Authorization header whose method-appropriate parameter
\* set carries no non-empty access_token is answered 401 "access token is required"
\* and the handler is not invoked, for every method.
C6_MissingTokenRejected ==
    (ResourceDone /\ ~HasAuthHeader /\ Get(MethodParams, "access_token") = <<>>)
        => (Is401("An access token is required to access this resource.") /\ calls = <<>>)

----------------------------------------------------------------------------
(* The client endpoints *)

ClientKeys == {"acme", "beta"}

Secrets == {"correct", "wrong"}

\* Every Client table over the keys: a key is absent, or a row active or not with
\* one of the secrets.
ClientTables ==
    UNION {[K -> [active : BOOLEAN, secret : Secrets]] : K \in SUBSET ClientKeys}

Authorizations ==
    {<<>>} \cup {<<[username |-> u, password |-> p]>> :
                    u \in ClientKeys \cup {"zeta"}, p \in Secrets}

ClientRequests ==
    {[view |-> "client", name |-> "", f |-> "", method |-> m, url |-> RequestUrl,
      headers |-> EmptyMap, authorization |-> a, args |-> EmptyMap, form |-> EmptyMap] :
        m \in {"GET", "POST"}, a \in Authorizations}

InitClient ==
    /\ InitCommon
    /\ clients \in ClientTables

NextClient ==
    \/ BeforeRequest(ClientRequests)
    \/ ClientView
    \/ Teardown

SpecClient == InitClient /\ [][NextClient]_vars

----------------------------------------------------------------------------
(* Claims about the client endpoints (SpecClient) *)

ClientDone == pc = "done" /\ request.view = "client"

HasCredentials == request.authorization # <<>>

Username == request.authorization[1].username

Password == request.authorization[1].password

UnknownClient == HasCredentials /\ Username \notin DOMAIN clients

InactiveClient ==
    HasCredentials /\ Username \in DOMAIN clients /\ ~clients[Username].active

SecretMismatch ==
    HasCredentials /\ Username \in DOMAIN clients /\ clients[Username].secret # Password

\* C9: an unknown key, an inactive client and a wrong secret get one and the same
\* response: status 401, the same body, the Basic challenge and no other header.
C9_FailuresIndistinguishable ==
    (ClientDone /\ (UnknownClient \/ InactiveClient \/ SecretMismatch))
        => response = [raised |-> "", status |-> 401,
                       body |-> [text |-> "Invalid client credentials."],
                       headers |-> ("WWW-Authenticate" :> <<"Basic", "Client credentials">>)]

\* C9's case: an active client presented with the wrong secret.
C9_Witness ==
    /\ ClientDone
    /\ SecretMismatch
    /\ ~InactiveClient
    /\ response.status = 401

ValidCredentials ==
    /\ HasCredentials
    /\ Username \in DOMAIN clients
    /\ clients[Username].active
    /\ clients[Username].secret = Password

\* C10: the wrapped handler runs and g.client is set exactly when the credentials name
\* an existing, active client whose secret matches; g.client is then that client; a
\* 401 leaves g as it was and does not invoke the handler.
C10_ClientAttachedIffValid ==
    /\ [](ClientDone =>
            /\ (calls # <<>>) <=> ValidCredentials
            /\ ("client" \in DOMAIN g) <=> ValidCredentials
            /\ ValidCredentials =>
                   g["client"] = [key |-> Username, active |-> TRUE, secret |-> Password]
            /\ ~ValidCredentials => (response.raised = "" /\ response.status = 401))
    /\ [][(pc = "view" /\ pc' = "done" /\ request.view = "client" /\ response'.status = 401)
            => (g' = g /\ calls' = <<>>)]_vars

\* C10's case: valid credentials, the handler ran with g.client set.
C10_Witness == ClientDone /\ calls # <<>> /\ "client" \in DOMAIN g

----------------------------------------------------------------------------
(* The pages of a browser session *)

NextParams == SeqsUpTo(UrlSymbols, MaxUrlLen)

Referers == {<<"http:", "//", "b.example", "/x">>, <<"http:", "//", "a.example", "/x">>}

PageRequests ==
    {[view |-> "page", name |-> "", f |-> "", method |-> "GET", url |-> RequestUrl,
      headers |-> h, authorization |-> <<>>, args |-> a, form |-> EmptyMap] :
        h \in {EmptyMap} \cup {"Referer" :> r : r \in Referers},
        a \in {EmptyMap} \cup {"next" :> n : n \in NextParams}}

LoginRequiredRequests ==
    {[view |-> "login_required", name |-> "", f |-> "", method |-> "GET", url |-> RequestUrl,
      headers |-> EmptyMap, authorization |-> <<>>, args |-> EmptyMap, form |-> EmptyMap]}

\* One user, with an email address.
Users == "u1" :> [email |-> "md5-u1", username |-> "name1"]

InitSession ==
    /\ authtokens = AuthTokens
    /\ clients = EmptyMap
    /\ users = Users
    /\ resources = Resources
    /\ endpoints = Endpoints
    /\ lookups = <<>>
    /\ session = EmptyMap
    /\ g = EmptyMap
    /\ request = NoRequest
    /\ response = NoResponse
    /\ calls = <<>>
    /\ returned = <<>>
    /\ pending = EmptyMap
    /\ pc = "idle"

NextSession ==
    \/ BeforeRequest(PageRequests \cup LoginRequiredRequests)
    \/ LoginRequiredView
    \/ CallGetNextUrl
    \/ CallLoginInternal
    \/ CallLogoutInternal
    \/ Teardown

SpecSession == InitSession /\ [][NextSession]_vars

----------------------------------------------------------------------------
(* Claims about get_next_url (SpecSession) *)

\* An absolute URL (http:, https: or protocol-relative) whose host is not the host
\* of the current request.
ExternalUrl(url) ==
    /\ startswith(url, "http:") \/ startswith(url, "https:") \/ startswith(url, "//")
    /\ urlsplit_hostname(url) # urlsplit_hostname(request.url)

\* C7: get_next_url called with external=False never returns an absolute URL whose
\* host differs from the host of the current request, with either value of the
\* referrer flag.
C7_NeverExternalUnlessAsked ==
    (returned # <<>> /\ ~returned[1].external) => ~ExternalUrl(returned[1].value)

\* C8: the session's "next" is read once: after any call of get_next_url the session
\* holds no "next" key; a call returns the stored value only if the key was there and
\* removes it; and only requires_login puts the key back.
C8_SessionNextReadOnce ==
    /\ [](returned # <<>> => "next" \notin DOMAIN session)
    /\ [][(returned' # returned /\ returned' # <<>> /\ returned'[1].source = "session")
            => /\ "next" \in DOMAIN session
               /\ returned'[1].value = session["next"]
               /\ "next" \notin DOMAIN session']_vars
    /\ [][("next" \notin DOMAIN session /\ "next" \in DOMAIN session')
            => (request.view = "login_required" /\ session'["next"] = request.url)]_vars

\* C8's case: a call has returned the value requires_login stored, and the key is gone.
C8_Witness ==
    /\ returned # <<>>
    /\ returned[1].source = "session"
    /\ returned[1].value = RequestUrl
    /\ "next" \notin DOMAIN session

----------------------------------------------------------------------------
(* Logins, logouts and the avatar cache *)

\* One user with an email address, one without.
AvatarUsers ==
    ("u1" :> [email |-> "md5-u1", username |-> "name1"])
        @@ ("u2" :> [email |-> "", username |-> None])

\* The user id the User model gives a new record, and the usernames asked for
NewUserIds == {"u3"}

NewUsernames == {"", "name3"}

\* The success argument of render_delete
DeleteMessages == {"", "deleted"}

\* session['userid_external'] as the external login views store it
ExternalIdentities ==
    {[service |-> "twitter", username |-> "tw-name", userid |-> "tw-id"],
     [service |-> "github", username |-> "gh-name", userid |-> "gh-id"],
     [service |-> "google", username |-> "", userid |-> "go-id"]}

AvatarRequests ==
    {[view |-> "page", name |-> "", f |-> "", method |-> "GET", url |-> u,
      headers |-> EmptyMap, authorization |-> <<>>, args |-> EmptyMap, form |-> EmptyMap] :
        u \in {RequestUrl, <<"https:", "//", "a.example", "/x">>}}
    \cup
    {[view |-> "page", name |-> "", f |-> "", method |-> m, url |-> RequestUrl,
      headers |-> EmptyMap, authorization |-> <<>>, args |-> EmptyMap, form |-> f] :
        m \in {"POST", "PUT"}, f \in {EmptyMap, "delete" :> <<"y">>}}

InitAvatar ==
    /\ authtokens = AuthTokens
    /\ clients = EmptyMap
    /\ users = AvatarUsers
    /\ resources = Resources
    /\ endpoints = Endpoints
    /\ session = EmptyMap
    /\ g = EmptyMap
    /\ request = NoRequest
    /\ response = NoResponse
    /\ calls = <<>>
    /\ returned = <<>>
    /\ pending = EmptyMap
    /\ lookups = <<>>
    /\ pc = "idle"

NextAvatar ==
    \/ BeforeRequest(AvatarRequests)
    \/ LookupReturns(NetOutcomes)
    \/ CallLoginInternal
    \/ CallLoginExternal(ExternalIdentities)
    \/ CallLogoutInternal
    \/ CallRegisterInternal(NewUserIds, NewUsernames)
    \/ CallRenderDelete(DeleteMessages)
    \/ DeleteUser
    \/ Teardown

SpecAvatar == InitAvatar /\ [][NextAvatar]_vars

----------------------------------------------------------------------------
(* Claims about lookup_current_user (SpecAvatar) *)

HasUserId == "userid" \in DOMAIN session

\* C11: when the session carries a user id that the User table does not hold,
\* lookup_current_user completes without raising and the request proceeds with
\* g.user None, whether or not an avatar URL is cached in the session.
C11_StaleUserIdFailsClosed ==
    [][(pc = "idle" /\ pc' # "idle" /\ HasUserId /\ session["userid"] \notin DOMAIN users)
          => (pc' = "view" /\ g'["user"] = None)]_vars

----------------------------------------------------------------------------
(* Claims about response headers and repeated requests (SpecResource, SpecApi) *)

NotCached ==
    /\ "Cache-Control" \in DOMAIN response.headers
    /\ response.headers["Cache-Control"] = <<"no-store">>
    /\ "Pragma" \in DOMAIN response.headers
    /\ response.headers["Pragma"] = <<"no-cache">>

\* C12 as stated: every response a resource endpoint returns (the ok envelope, the
\* handler-error envelope and each 401) carries Cache-Control: no-store and
\* Pragma: no-cache.
C12_EveryResponseNotCached ==
    (ResourceDone /\ response.raised = "") => NotCached

\* What lines 106-107 do give: the envelopes (status 200, "ok" or "error") carry
\* the two headers; the responses of resource_auth_error do not pass there.
EnvelopesNotCached ==
    (ResourceDone /\ response.raised = "" /\ response.status = 200) => NotCached

\* A fixed Client table for the runs that mix both kinds of endpoint.
ApiClients ==
    ("acme" :> [active |-> TRUE, secret |-> "correct"])
        @@ ("beta" :> [active |-> FALSE, secret |-> "correct"])

InitApi ==
    /\ InitCommon
    /\ clients = ApiClients

NextApi ==
    \/ BeforeRequest(ResourceRequests \cup ClientRequests)
    \/ ResourceView
    \/ ClientView
    \/ Teardown

SpecApi == InitApi /\ [][NextApi]_vars

\* C13: every 401 carries WWW-Authenticate: from a resource endpoint the Bearer
\* challenge whose scope is the name of the resource that was called, from a client
\* endpoint the Basic challenge.
C13_ChallengeOnEvery401 ==
    (pc = "done" /\ response.raised = "" /\ response.status = 401) =>
        /\ "WWW-Authenticate" \in DOMAIN response.headers
        /\ request.view = "resource" =>
               response.headers["WWW-Authenticate"] = <<"Bearer", "Token Required", request.name>>
        /\ request.view = "client" =>
               response.headers["WWW-Authenticate"] = <<"Basic", "Client credentials">>
        /\ request.view \in {"resource", "client"}

\* C13's case: a 401 of the "email" endpoint, for a token whose scope lacks it.
C13_Witness ==
    /\ ResourceDone
    /\ request.name = "email"
    /\ Is401("Token does not provide access to this resource.")

\* The request is a GET that presents a token of the TokenStore whose scope holds
\* the resource.
ValidGet ==
    /\ request.method = "GET"
    /\ \E t \in DOMAIN authtokens : Presents(t) /\ request.name \in authtokens[t]

\* C15: a GET with a valid bearer token is answered by what the request, the
\* TokenStore and the handler's result determine, and handling it changes none of
\* them: the handler is called once with the token and the query parameters, a
\* handler that returns v gives status 200, the envelope {status: ok, result: v} and
\* the two cache headers; so a repeated GET with an idempotent handler gets the same
\* response.
C15_RepeatedGetSameResponse ==
    /\ []((ResourceDone /\ ValidGet) =>
            /\ Len(calls) = 1
            /\ Presents(calls[1].authtoken)
            /\ calls[1].args = request.args
            /\ (calls[1].outcome.kind = "return" /\ calls[1].outcome.serialisable) =>
                   response = [raised |-> "", status |-> 200,
                               body |-> [status |-> "ok", result |-> calls[1].outcome.value],
                               headers |-> ("Cache-Control" :> <<"no-store">>)
                                              @@ ("Pragma" :> <<"no-cache">>)])
    /\ [][(pc = "view" /\ pc' = "done" /\ request.view = "resource")
            => UNCHANGED <<stores, session, request>>]_vars

\* C15's case: a valid GET answered with the ok envelope.
C15_Witness ==
    /\ ResourceDone
    /\ ValidGet
    /\ response.status = 200
    /\ response.body.status = "ok"

----------------------------------------------------------------------------
(* Claims about lookup_current_user and the cached avatar (SpecAvatar) *)

\* The step in which a request arrives and lookup_current_user starts.
HookStep == pc = "idle" /\ pc' # "idle"

\* The step in which lookup_current_user ends: the step it started in, or the one in
\* which urlopen returns.
HookEnds ==
    \/ pc = "idle" /\ pc' \in {"view", "aborted"}
    \/ pc = "lookup" /\ pc' \in {"view", "aborted"}

\* C14: after lookup_current_user on a request whose session carries no user id,
\* g.user is None, g.avatar_url is None, the session holds no 'avatar_url' key and
\* every other session key is as it was.
C14_NoUserIdClearsAvatar ==
    [][(HookStep /\ ~HasUserId) =>
          /\ pc' = "view"
          /\ g'["user"] = None
          /\ g'["avatar_url"] = <<>>
          /\ DOMAIN session' = DOMAIN session \ {"avatar_url"}
          /\ \A k \in DOMAIN session' : session'[k] = session[k]]_vars

\* C14's case: the hook has run on a session that a logout left without a user id;
\* the session's other key is still there, the avatar is gone.
C14_Witness ==
    /\ pc = "view"
    /\ ~HasUserId
    /\ "_permanent" \in DOMAIN session
    /\ "avatar_url" \notin DOMAIN session
    /\ g = ("user" :> None) @@ ("avatar_url" :> <<>>)

\* A third-party lookup that failed: no connection, a timeout, or (github, whose
\* payload is parsed) a payload that is not JSON.
LookupFailed(l) ==
    \/ l.via \in {"twitter", "github"} /\ l.net \in {"URLError", "timeout"}
    \/ l.via = "github" /\ l.net = "malformed"

\* C18: whichever way a twitter or github avatar lookup fails, lookup_current_user
\* completes without raising, caches None as session['avatar_url'] and leaves g.user
\* the resolved user.
C18_LookupFailureNeverAborts ==
    [][(HookEnds /\ lookups' # <<>> /\ LookupFailed(lookups'[1])) =>
          /\ pc' = "view"
          /\ "avatar_url" \in DOMAIN session'
          /\ session'["avatar_url"] = <<>>
          /\ g'["user"] = session["userid"]]_vars

\* C19: lookup_current_user derives the avatar only on a request whose session has a
\* user id and no 'avatar_url' key, at most once in a request, and caches what it
\* derived; on a request whose session has a user id and an 'avatar_url' key (None
\* included) it makes no lookup, leaves the session as it is and hands out the
\* cached value.
C19_AvatarComputedOncePerCachedValue ==
    /\ [][HookStep =>
             /\ (pc' = "lookup" \/ lookups' # <<>>) =>
                    (HasUserId /\ "avatar_url" \notin DOMAIN session)
             /\ (HasUserId /\ "avatar_url" \in DOMAIN session) =>
                    /\ lookups' = <<>>
                    /\ pc' = "view"
                    /\ session' = session
                    /\ g'["avatar_url"] = session["avatar_url"]]_vars
    /\ [][HookEnds =>
             /\ Len(lookups') <= 1
             /\ lookups' # <<>> => (HasUserId /\ "avatar_url" \notin DOMAIN session)
             /\ (lookups' # <<>> /\ pc' = "view") =>
                    ("avatar_url" \in DOMAIN session'
                        /\ session'["avatar_url"] = lookups'[1].value)]_vars

\* C19's case: a request of a session that holds None, cached after a lookup that
\* raised URLError, is answered from the cache.
C19_Witness ==
    /\ pc = "view"
    /\ HasUserId
    /\ external_service(session) \in {"twitter", "github"}
    /\ "avatar_url" \in DOMAIN session
    /\ session["avatar_url"] = <<>>
    /\ lookups = <<>>
    /\ "avatar_url" \in DOMAIN g
    /\ g["avatar_url"] = <<>>

\* The avatars lines 150-157 can derive for a user: the gravatar of the user's email,
\* or else the image of an external identity, or None.
DerivedAvatars(u) ==
    IF u \in DOMAIN AvatarUsers /\ AvatarUsers[u].email # ""
    THEN {avatar_url_email(r, AvatarUsers[u].email) : r \in AvatarRequests}
    ELSE {<<>>}
            \cup {avatar_url_twitter(e.username, "ok").value : e \in ExternalIdentities}
            \cup {avatar_url_github(e.userid, "ok").value : e \in ExternalIdentities}

\* C20: whenever lookup_current_user finishes with g.user set to a user, g.avatar_url
\* is an avatar derived for that user, or None; never the avatar cached for another
\* user who was logged in earlier in the session.
C20_AvatarOfCurrentUser ==
    [][(HookEnds /\ pc' = "view" /\ g'["user"] # None) =>
          g'["avatar_url"] \in DerivedAvatars(g'["user"]) \cup {<<>>}]_vars

----------------------------------------------------------------------------
(* The order in which get_next_url looks for its result (SpecSession) *)

\* The request's next parameter after the safety filter: emptied when the filter is
\* on and the parameter is an absolute URL of another host.
FilteredParameter(external) ==
    LET param == Get(request.args, "next")
    IN  IF ~external /\ ExternalUrl(param) THEN <<>> ELSE param

\* C17: get_next_url returns a non-empty session 'next' as stored, unfiltered and
\* whatever the request's next parameter is; otherwise the parameter after the safety
\* filter (skipped only when external=True) if that is non-empty; otherwise, only
\* when referrer=True, the Referer header if present; otherwise the index location.
C17_NextUrlPriority ==
    [][(returned' # returned /\ returned' # <<>>) =>
          LET call == returned'[1]
              stored == Get(session, "next")
              candidate == FilteredParameter(call.external)
              referer == Get(request.headers, "Referer")
          IN  call.value =
                  IF stored # <<>> THEN stored
                  ELSE IF candidate # <<>> THEN candidate
                  ELSE IF call.referrer /\ referer # <<>> THEN referer
                  ELSE IndexUrl]_vars

\* C17's case: the stored value was returned although the request carried a next
\* parameter that passes the filter.
C17_Witness ==
    /\ returned # <<>>
    /\ returned[1].source = "session"
    /\ FilteredParameter(returned[1].external) # <<>>
    /\ FilteredParameter(returned[1].external) # returned[1].value

\* C17's other cases: the Referer header or the index location was returned with a
\* parameter that the filter emptied.
C17_FallbackReached ==
    /\ returned # <<>>
    /\ returned[1].source \in {"referrer", "index"}
    /\ Get(request.args, "next") # <<>>

----------------------------------------------------------------------------
(* Registrations of resources (SpecRegistry) *)

\* How many times provides_resource is applied during startup
MaxRegistrations == 2

\* The functions that are registered
Handlers == {"f1", "f2"}

\* The requests routed to the registered endpoints: a GET with the header of the
\* token that grants both resources, or with no token.
RegistryRequests(eps) ==
    {[view |-> "resource", name |-> e.name, f |-> e.f, method |-> "GET", url |-> RequestUrl,
      headers |-> h, authorization |-> <<>>, args |-> EmptyMap, form |-> EmptyMap] :
        e \in eps,
        h \in {EmptyMap, "Authorization" :> <<"Bearer ", "a", "=">>}}

InitRegistry ==
    /\ authtokens = AuthTokens
    /\ clients = EmptyMap
    /\ users = EmptyMap
    /\ resources = EmptyMap
    /\ endpoints = {}
    /\ session = EmptyMap
    /\ g = EmptyMap
    /\ request = NoRequest
    /\ response = NoResponse
    /\ calls = <<>>
    /\ returned = <<>>
    /\ pending = EmptyMap
    /\ lookups = <<>>
    /\ pc = "startup"

NextRegistry ==
    \/ Register(ResourceNames, Handlers, MaxRegistrations)
    \/ Serve
    \/ BeforeRequest(RegistryRequests(endpoints))
    \/ ResourceView
    \/ Teardown

SpecRegistry == InitRegistry /\ [][NextRegistry]_vars

\* C16: after any sequence of registrations, two under one name with different
\* handlers included, the handler that an authorized call of a resource endpoint
\* invokes is the one resource_details(name) returns for the endpoint's name.
C16_InvokesRegisteredHandler ==
    (ResourceDone /\ calls # <<>>) =>
        calls[1].f = resource_details(resources, request.name)

\* What does hold: resource_details(name) is the function of the latest registration
\* under the name, and an endpoint calls the function it was registered with.
RegistryHoldsLatest ==
    [][(pc = "startup" /\ endpoints' # endpoints) =>
          \E e \in endpoints' \ endpoints :
              resource_details(resources', e.name) = e.f]_vars

====
